---------------------------- MODULE Spec2Model ----------------------------
(***************************************************************************)
(* State-machine model of contracts/EncryptedDiceGame.sol.                 *)
(*                                                                         *)
(* Encrypted values are modelled by their clear value: an euint32 is the   *)
(* pair <<hi, lo>> of its two 16-bit halves (value = hi * 2^16 + lo), so   *)
(* that FHE.add / FHE.sub wrap modulo 2^32 exactly as the library does.    *)
(* A uint256 is a little-endian sequence of base-1000 digits without       *)
(* leading zero digits (<<>> is 0), so that 1 ether = 1000^6.               *)
(***************************************************************************)
EXTENDS Integers, Naturals, Sequences, FiniteSets, TLC

(***************************************************************************)
(* Bounds of the model.                                                    *)
(***************************************************************************)
\* the number of blocks and successful transactions of a run
MaxSteps == 4

(***************************************************************************)
(* 32-bit arithmetic of euint32 on 16-bit halves.                           *)
(***************************************************************************)
Half == 65536

U32(hi, lo) == <<hi, lo>>

Zero32 == U32(0, 0)

\* FHE.asEuint32(uint32 v) of a small literal v < 2^16
Lit32(v) == U32(0, v)

\* FHE.add on euint32: addition modulo 2^32
Add32(a, b) ==
    LET lo == a[2] + b[2]
        hi == a[1] + b[1] + (lo \div Half)
    IN  U32(hi % Half, lo % Half)

\* a subtraction that stops at 0 instead of wrapping
Sub32Saturating(a, b) ==
    IF a[1] < b[1] \/ (a[1] = b[1] /\ a[2] < b[2]) THEN U32(0, 0)
    ELSE LET lo == a[2] - b[2]
             borrow == IF lo < 0 THEN 1 ELSE 0
         IN  U32(a[1] - b[1] - borrow, (lo + Half) % Half)

\* FHE.sub on euint32: subtraction modulo 2^32
Sub32(a, b) ==
    LET lo == a[2] - b[2]
        borrow == IF lo < 0 THEN 1 ELSE 0
        hi == a[1] - b[1] - borrow
    IN  U32((hi + Half) % Half, (lo + Half) % Half)

\* FHE.and on euint32 with the literal 1
And32(a, b) == U32(0, (a[2] % 2) * (b[2] % 2))

\* a < b on 32-bit values
Less32(a, b) == a[1] < b[1] \/ (a[1] = b[1] /\ a[2] < b[2])

(***************************************************************************)
(* uint256 arithmetic on base-1000 digits (little-endian).                  *)
(***************************************************************************)
Base == 1000

RECURSIVE BigNorm(_)
BigNorm(s) ==
    IF s = <<>> THEN <<>>
    ELSE IF s[Len(s)] = 0 THEN BigNorm(SubSeq(s, 1, Len(s) - 1))
    ELSE s

Digit(s, i) == IF i <= Len(s) THEN s[i] ELSE 0

MaxOf(a, b) == IF a >= b THEN a ELSE b

\* a small natural (< 2^31) as a uint256
RECURSIVE Big(_)
Big(n) == IF n = 0 THEN <<>> ELSE <<n % Base>> \o Big(n \div Base)

RECURSIVE BigAddC(_, _, _, _)
BigAddC(a, b, i, carry) ==
    IF i > MaxOf(Len(a), Len(b))
    THEN (IF carry = 0 THEN <<>> ELSE <<carry>>)
    ELSE LET d == Digit(a, i) + Digit(b, i) + carry
         IN  <<d % Base>> \o BigAddC(a, b, i + 1, d \div Base)

BigAdd(a, b) == BigNorm(BigAddC(a, b, 1, 0))

RECURSIVE BigSubC(_, _, _, _)
BigSubC(a, b, i, borrow) ==
    IF i > Len(a) THEN <<>>
    ELSE LET d == Digit(a, i) - Digit(b, i) - borrow
         IN  <<(d + Base) % Base>> \o BigSubC(a, b, i + 1, IF d < 0 THEN 1 ELSE 0)

\* a - b for a >= b
BigSub(a, b) == BigNorm(BigSubC(a, b, 1, 0))

RECURSIVE BigLessFrom(_, _, _)
BigLessFrom(a, b, i) ==
    IF i = 0 THEN FALSE
    ELSE IF Digit(a, i) # Digit(b, i) THEN Digit(a, i) < Digit(b, i)
    ELSE BigLessFrom(a, b, i - 1)

BigLess(a, b) == BigLessFrom(a, b, MaxOf(Len(a), Len(b)))

BigLeq(a, b) == ~BigLess(b, a)

RECURSIVE BigMulC(_, _, _, _)
BigMulC(a, m, i, carry) ==
    IF i > Len(a) THEN Big(carry)
    ELSE LET d == a[i] * m + carry
         IN  <<d % Base>> \o BigMulC(a, m, i + 1, d \div Base)

\* a * m for a small factor m <= 2^16
BigMul(a, m) == BigNorm(BigMulC(a, m, 1, 0))

RECURSIVE BigDivFrom(_, _, _, _)
BigDivFrom(a, m, i, rem) ==
    IF i = 0 THEN <<>>
    ELSE LET d == rem * Base + a[i]
         IN  BigDivFrom(a, m, i - 1, d % m) \o <<d \div m>>

\* floor(a / m) for a small divisor m <= 2^16
BigDiv(a, m) == BigNorm(BigDivFrom(a, m, Len(a), 0))

\* floor(a / 1000^k)
BigShr(a, k) == IF Len(a) <= k THEN <<>> ELSE SubSeq(a, k + 1, Len(a))

\* n * 1000^k
RECURSIVE BigShl(_, _)
BigShl(a, k) == IF a = <<>> \/ k = 0 THEN a ELSE BigShl(<<0>> \o a, k - 1)

\* uint256(x) of a uint32 x
U32ToBig(x) == BigAdd(BigMul(Big(x[1]), Half), Big(x[2]))

\* uint32(a): the explicit conversion keeps the low 32 bits
RECURSIVE BigToU32From(_, _, _)
BigToU32From(a, i, acc) ==
    IF i = 0 THEN acc
    ELSE LET lo == acc[2] * Base + a[i]
             hi == acc[1] * Base + (lo \div Half)
         IN  BigToU32From(a, i - 1, U32(hi % Half, lo % Half))

\* the conversion clamped to the largest 32-bit value instead of truncated
BigToU32Saturating(a) ==
    IF BigLess(U32ToBig(U32(Half - 1, Half - 1)), a) THEN U32(Half - 1, Half - 1)
    ELSE BigToU32From(a, Len(a), Zero32)

BigToU32(a) == BigToU32From(a, Len(a), Zero32)

(***************************************************************************)
(* Program constants.                                                      *)
(***************************************************************************)
\* 1 ether = 10^18 = 1000^EtherDigits wei
EtherDigits == 6

OneEther == BigShl(Big(1), EtherDigits)

ROLL_TOKEN_RATE == 1000

\* MAX_MINT = 10000 ether
MAX_MINT == BigMul(OneEther, 10000)

\* type(uint32).max
MaxUint32 == U32(Half - 1, Half - 1)

\* n ether as a wei amount
Ether(n) == BigMul(OneEther, n)

\* n / 1000 ether as a wei amount: the price of n ROLL
MilliEther(n) == BigShl(n, EtherDigits - 1)

(***************************************************************************)
(* Handles of encrypted values.  The null handle is what a storage slot    *)
(* holds before any ciphertext was written to it; the FHE operators read   *)
(* it as an encryption of 0.                                               *)
(***************************************************************************)
NullHandle == <<>>

\* FHE.asEuint8(v)
Lit8(v) == <<v>>

\* the clear value of an euint32 operand of FHE.add / FHE.sub
Val32(h) == IF h = NullHandle THEN Zero32 ELSE h

(***************************************************************************)
(* Accounts.                                                               *)
(***************************************************************************)
Deployer == "owner"

Players == {"alice", "bob"}

Accounts == {Deployer} \cup Players

ZeroAddress == "0x0"

GameIds == 0 .. MaxSteps

\* the value of a games[] slot that was never written
EmptyGame ==
    [player |-> ZeroAddress, diceCount |-> 0, prediction |-> NullHandle,
     stakeAmount |-> NullHandle, diceValues |-> <<>>, timestamp |-> 0,
     isResolved |-> FALSE]

(***************************************************************************)
(* Grants.  Every ciphertext carries the set of those allowed to use or    *)
(* decrypt it; a ciphertext an operation has just produced carries none    *)
(* until the contract grants them.                                         *)
(***************************************************************************)
\* address(this)
This == "contract"

\* anyone, once a ciphertext was made publicly decryptable
Public == "anyone"

\* FHE.allowThis(x), FHE.allow(x, account), FHE.makePubliclyDecryptable(x)
allowThis(grants) == grants \cup {This}

allow(grants, account) == grants \cup {account}

makePubliclyDecryptable(grants) == grants \cup {Public}

\* the grants of the ciphertexts before any was written
NoGrants ==
    [balance |-> [a \in Accounts |-> {}],
     prediction |-> [g \in GameIds |-> {}],
     stakeAmount |-> [g \in GameIds |-> {}],
     diceValues |-> [g \in GameIds |-> <<>>],
     won |-> [g \in GameIds |-> {}]]

\* the grants with the deploying account added
SetPermissionsDeployerToo(sender) == allow(allow(allowThis({}), sender), Deployer)

\* the grants with public decryption carried over
SetPermissionsPublic(sender) == makePubliclyDecryptable(allow(allowThis({}), sender))

\* FHE.allowThis(x); FHE.allow(x, msg.sender) on a ciphertext just produced
SetPermissions(sender) == allow(allowThis({}), sender)

(***************************************************************************)
(* useFHEPublicDecrypt: the values one hook instance works with.           *)
(***************************************************************************)
\* an absent instance, chainId, requests
UndefinedInstance == "undefined"

UndefinedChainId == -1

UndefinedRequests == [given |-> FALSE, items |-> <<>>]

Requests(items) == [given |-> TRUE, items |-> items]

\* the handles the caller asks for, in the order localeCompare gives them
Handles == <<"0xh1", "0xh2">>

ContractAddress == "0xDice"

\* FHEPublicDecryptRequest
Request(h) == [handle |-> h, contractAddress |-> ContractAddress]

Rank(r) == CHOOSE i \in 1 .. Len(Handles) : Handles[i] = r.handle

RECURSIVE Insert(_, _)
Insert(r, sorted) ==
    IF sorted = <<>> THEN <<r>>
    ELSE IF Rank(r) <= Rank(Head(sorted)) THEN <<r>> \o sorted
    ELSE <<Head(sorted)>> \o Insert(r, Tail(sorted))

\* [...requests].sort((a, b) => (a.handle + a.contractAddress).localeCompare(..))
RECURSIVE Sorted(_)
Sorted(items) ==
    IF items = <<>> THEN <<>> ELSE Insert(Head(items), Sorted(Tail(items)))

\* requestsKey: "" (here <<>>) without requests, else JSON.stringify of the sorted
\* requests, which is one string per sorted list
requestsKey(requests) ==
    IF ~requests.given \/ Len(requests.items) = 0 THEN <<>> ELSE Sorted(requests.items)

\* the params of the first render: nothing is known yet
FirstParams ==
    [instance |-> UndefinedInstance, chainId |-> UndefinedChainId,
     requests |-> UndefinedRequests]

\* Record<string, ...> with no entry
EmptyRecord == [h \in {} |-> 0]

\* error === null
NullError == <<>>

\* what publicDecrypt resolves with: clearValues absent, or a record by handle
NoClearValues == [given |-> FALSE, values |-> EmptyRecord]

ClearValues(values) == [given |-> TRUE, values |-> values]

\* what publicDecrypt rejects with: an object with or without name and message
Thrown(hasName, name, msg) == [hasName |-> hasName, name |-> name, message |-> msg]

NoRun ==
    [thisChainId |-> UndefinedChainId, thisRequests |-> UndefinedRequests,
     chainId |-> UndefinedChainId, requestsKey |-> <<>>]

(***************************************************************************)
(* State.                                                                  *)
(***************************************************************************)
VARIABLES
    owner,            \* address public owner
    gameCounter,      \* uint256 public gameCounter
    playerBalance,    \* mapping(address => euint32)
    games,            \* mapping(uint256 => Game)
    playerGames,      \* mapping(address => uint256[])
    treasury,         \* address(this).balance, in wei
    log,              \* the events emitted so far, in order
    acl,              \* per stored ciphertext: who may use or decrypt it
    blockTimestamp,   \* block.timestamp of the current block
    prevrandao,       \* block.prevrandao of the current block
    last,             \* the last successful external call and its outcome
    failed,           \* the reverted call whose receipt is being read, if any
    submitted,        \* the clear prediction and stake the players encrypt in this run
    steps,            \* the number of blocks and successful transactions so far
    atStart,          \* per game: the player's balance before startGame, and whether
                      \* the player's only successful call since is resolveGame of it
    params,           \* useFHEPublicDecrypt: instance, chainId, requests of the last render
    held,             \* the params of an earlier render whose decrypt callback is still held
    isDecrypting,     \* useState<boolean>(false)
    message,          \* useState<string>("")
    results,          \* useState<Record<string, ...>>({})
    error,            \* useState<string | null>(null)
    isDecryptingRef,  \* useRef<boolean>(isDecrypting)
    lastReqKeyRef,    \* useRef<string>("")
    inflight,         \* the runs whose publicDecrypt call has not settled, oldest first
    lastDecrypt,      \* the last decrypt() invocation and what it found
    settled,          \* the last outcome publicDecrypt delivered, and to which run
    renders           \* the number of re-renders with new params so far

contractState == <<owner, gameCounter, playerBalance, games, playerGames, treasury, log, acl>>

chain == <<blockTimestamp, prevrandao>>

\* the state of one useFHEPublicDecrypt hook instance and of its caller
hookState == <<params, held, isDecrypting, message, results, error, isDecryptingRef,
               lastReqKeyRef, inflight, lastDecrypt, settled, renders>>

vars == <<owner, gameCounter, playerBalance, games, playerGames, treasury, log, acl,
          blockTimestamp, prevrandao, last, failed, submitted, steps, atStart,
          params, held, isDecrypting, message, results, error, isDecryptingRef,
          lastReqKeyRef, inflight, lastDecrypt, settled, renders>>

\* the hook after its first render
Mounted ==
    /\ params = FirstParams
    /\ held = FirstParams
    /\ isDecrypting = FALSE
    /\ message = ""
    /\ results = EmptyRecord
    /\ error = NullError
    /\ isDecryptingRef = FALSE
    /\ lastReqKeyRef = <<>>
    /\ inflight = <<>>
    /\ lastDecrypt = [closure |-> FirstParams, started |-> FALSE, busy |-> FALSE]
    /\ settled = [kind |-> "none", run |-> NoRun, clearValues |-> NoClearValues,
                  e |-> Thrown(FALSE, "", "")]
    /\ renders = 0

\* paid: the native amount the call transferred to its caller; before, granted:
\* the caller's balance and the grants on it when the call was made
Call(op, sender, arg) ==
    [op |-> op, sender |-> sender, arg |-> arg, won |-> FALSE, payout |-> Zero32,
     paid |-> <<>>, before |-> Val32(playerBalance[sender]),
     granted |-> acl.balance[sender]]

NoCall == [op |-> "none", sender |-> ZeroAddress, arg |-> <<>>, err |-> "ok"]

\* transactions run one at a time; after a reverted one its receipt is read first
Idle == failed.op = "none"

\* a call that reverts: no storage write, no event, no transfer survives
Revert(op, sender, arg, err) ==
    /\ Idle
    /\ failed' = [op |-> op, sender |-> sender, arg |-> arg, err |-> err]
    /\ UNCHANGED <<contractState, chain, last, submitted, steps, atStart, hookState>>

\* the receipt of a reverted call has been read
DropReceipt ==
    /\ ~Idle
    /\ failed' = NoCall
    /\ UNCHANGED <<contractState, chain, last, submitted, steps, atStart, hookState>>

\* a successful call by sender ends the quiet period of the sender's games
Touched(sender) ==
    [g \in GameIds |->
        IF games[g].player = sender THEN [atStart[g] EXCEPT !.quiet = FALSE]
        ELSE atStart[g]]

\* one more block or successful transaction, within the bound of the run
Step ==
    /\ Idle
    /\ steps < MaxSteps
    /\ steps' = steps + 1
    /\ UNCHANGED hookState

Succeed(op, sender, arg) ==
    /\ Step
    /\ last' = Call(op, sender, arg)
    /\ atStart' = Touched(sender)
    /\ UNCHANGED <<failed, submitted>>

NoEvents(types) == Cardinality({i \in 1 .. Len(log) : log[i].type \in types})

\* the constructor leaving owner unset
InitWithOwnerUnset(sub, seeds) ==
    /\ owner = ZeroAddress
    /\ gameCounter = 0
    /\ playerBalance = [a \in Accounts |-> NullHandle]
    /\ games = [g \in GameIds |-> EmptyGame]
    /\ playerGames = [a \in Accounts |-> <<>>]
    /\ treasury = Big(0)
    /\ log = <<>>
    /\ acl = NoGrants
    /\ blockTimestamp = 1
    /\ prevrandao \in seeds
    /\ last = Call("constructor", Deployer, <<>>)
    /\ failed = NoCall
    /\ steps = 0
    /\ submitted \in sub
    /\ atStart = [g \in GameIds |-> [before |-> Zero32, quiet |-> FALSE]]
    /\ Mounted

\* the state right after the constructor ran, for the submitted values sub
InitWith(sub, seeds) ==
    /\ owner = Deployer
    /\ gameCounter = 0
    /\ playerBalance = [a \in Accounts |-> NullHandle]
    /\ games = [g \in GameIds |-> EmptyGame]
    /\ playerGames = [a \in Accounts |-> <<>>]
    /\ treasury = Big(0)
    /\ log = <<>>
    /\ acl = NoGrants
    /\ blockTimestamp = 1
    /\ prevrandao \in seeds
    /\ last = Call("constructor", Deployer, <<>>)
    /\ failed = NoCall
    /\ steps = 0
    /\ submitted \in sub
    /\ atStart = [g \in GameIds |-> [before |-> Zero32, quiet |-> FALSE]]
    /\ Mounted

(***************************************************************************)
(* The chain produces a new block.                                         *)
(***************************************************************************)
NewBlock(seed) ==
    /\ Step
    /\ blockTimestamp' = blockTimestamp + 1
    /\ prevrandao' = seed
    /\ UNCHANGED <<contractState, last, failed, submitted, atStart>>

(***************************************************************************)
(* mintTokens(amount)                                                      *)
(***************************************************************************)
\* the error mintTokens(amount) reverts with, "ok" when it does not revert
mintTokensErr(amount) ==
    IF BigLess(MAX_MINT, amount) THEN "MaxMintExceeded" ELSE "ok"

\* the mint crediting the owner's balance
mintTokensCreditsOwner(sender, amount) ==
    IF mintTokensErr(amount) # "ok"
    THEN Revert("mintTokens", sender, <<amount>>, mintTokensErr(amount))
    ELSE /\ LET encryptedAmount == BigToU32(amount)
            IN  playerBalance' = [playerBalance EXCEPT
                    ![owner] = Add32(Val32(@), encryptedAmount)]
         /\ log' = Append(log, [type |-> "TokensMinted", user |-> sender, amount |-> amount])
         /\ Succeed("mintTokens", sender, <<amount>>)
         /\ acl' = [acl EXCEPT !.balance[sender] = SetPermissions(sender)]
         /\ UNCHANGED <<owner, gameCounter, games, playerGames, treasury, chain>>

mintTokens(sender, amount) ==
    IF mintTokensErr(amount) # "ok"
    THEN Revert("mintTokens", sender, <<amount>>, mintTokensErr(amount))
    ELSE /\ LET encryptedAmount == BigToU32(amount)
            IN  playerBalance' = [playerBalance EXCEPT
                    ![sender] = Add32(Val32(@), encryptedAmount)]
         /\ log' = Append(log, [type |-> "TokensMinted", user |-> sender, amount |-> amount])
         /\ Succeed("mintTokens", sender, <<amount>>)
         /\ acl' = [acl EXCEPT !.balance[sender] = SetPermissions(sender)]
         /\ UNCHANGED <<owner, gameCounter, games, playerGames, treasury, chain>>

\* the token amount rounded up
RollForCeil(value) ==
    BigShr(BigAdd(BigMul(value, ROLL_TOKEN_RATE), BigSub(OneEther, Big(1))), EtherDigits)

(***************************************************************************)
(* swapETHForROLL() payable                                                *)
(***************************************************************************)
\* uint256 rollAmount = (msg.value * ROLL_TOKEN_RATE) / 1 ether
RollFor(value) == BigShr(BigMul(value, ROLL_TOKEN_RATE), EtherDigits)

\* swapETHForROLLErr without the uint32 range check
swapETHForROLLErrNoLimit(value) ==
    IF value = Big(0) THEN "NoETHSent" ELSE "ok"

swapETHForROLLErr(value) ==
    IF value = Big(0) THEN "NoETHSent"
    ELSE IF BigLess(U32ToBig(MaxUint32), RollFor(value))
    THEN "ROLL amount too large for uint32"
    ELSE "ok"

swapETHForROLL(sender, value) ==
    IF swapETHForROLLErr(value) # "ok"
    THEN Revert("swapETHForROLL", sender, <<value>>, swapETHForROLLErr(value))
    ELSE /\ playerBalance' = [playerBalance EXCEPT
                ![sender] = Add32(Val32(@), BigToU32(RollFor(value)))]
         /\ treasury' = BigAdd(treasury, value)
         /\ log' = Append(log, [type |-> "TokensSwapped", user |-> sender,
                                ethAmount |-> value, rollAmount |-> RollFor(value),
                                ethToRoll |-> TRUE])
         /\ Succeed("swapETHForROLL", sender, <<value>>)
         /\ acl' = [acl EXCEPT !.balance[sender] = SetPermissions(sender)]
         /\ UNCHANGED <<owner, gameCounter, games, playerGames, chain>>

(***************************************************************************)
(* swapROLLForETH(rollAmount, encryptedAmount, amountProof)                *)
(* proofOk: whether FHE.fromExternal accepts the proof; accepts: whether   *)
(* the caller's account accepts the native transfer.                       *)
(***************************************************************************)
\* uint256 ethAmount = (uint256(rollAmount) * 1 ether) / ROLL_TOKEN_RATE
EthFor(rollAmount) == BigDiv(BigShl(U32ToBig(rollAmount), EtherDigits), ROLL_TOKEN_RATE)

\* swapROLLForETHErr asking for more than ethAmount in the contract
swapROLLForETHErrStrict(rollAmount, proofOk, accepts) ==
    IF ~Less32(Zero32, rollAmount) THEN "Amount must be greater than 0"
    ELSE IF ~BigLess(EthFor(rollAmount), treasury) THEN "Insufficient contract ETH balance"
    ELSE IF ~proofOk THEN "InvalidProof"
    ELSE IF ~accepts THEN "TransferFailed"
    ELSE "ok"

\* swapROLLForETHErr paying with send and ignoring its result
swapROLLForETHErrSendUnchecked(rollAmount, proofOk, accepts) ==
    IF ~Less32(Zero32, rollAmount) THEN "Amount must be greater than 0"
    ELSE IF ~BigLeq(EthFor(rollAmount), treasury) THEN "Insufficient contract ETH balance"
    ELSE IF ~proofOk THEN "InvalidProof"
    ELSE "ok"

swapROLLForETHErr(rollAmount, proofOk, accepts) ==
    IF ~Less32(Zero32, rollAmount) THEN "Amount must be greater than 0"
    ELSE IF ~BigLeq(EthFor(rollAmount), treasury) THEN "Insufficient contract ETH balance"
    ELSE IF ~proofOk THEN "InvalidProof"
    ELSE IF ~accepts THEN "TransferFailed"
    ELSE "ok"

\* the sell debiting the claimed plaintext amount
swapROLLForETHDebitsClaimed(sender, rollAmount, encryptedAmount, proofOk, accepts) ==
    IF swapROLLForETHErr(rollAmount, proofOk, accepts) # "ok"
    THEN Revert("swapROLLForETH", sender, <<rollAmount, encryptedAmount, proofOk, accepts>>,
                swapROLLForETHErr(rollAmount, proofOk, accepts))
    ELSE /\ playerBalance' = [playerBalance EXCEPT
                ![sender] = Sub32(Val32(@), rollAmount)]
         /\ treasury' = BigSub(treasury, EthFor(rollAmount))
         /\ log' = Append(log, [type |-> "TokensSwapped", user |-> sender,
                                ethAmount |-> EthFor(rollAmount),
                                rollAmount |-> U32ToBig(rollAmount),
                                ethToRoll |-> FALSE])
         /\ Step
         /\ last' = [Call("swapROLLForETH", sender,
                             <<rollAmount, encryptedAmount, proofOk, accepts>>)
                        EXCEPT !.paid = EthFor(rollAmount)]
         /\ atStart' = Touched(sender)
         /\ acl' = [acl EXCEPT !.balance[sender] = SetPermissions(sender)]
         /\ UNCHANGED <<owner, gameCounter, games, playerGames, chain, failed, submitted>>

swapROLLForETH(sender, rollAmount, encryptedAmount, proofOk, accepts) ==
    IF swapROLLForETHErr(rollAmount, proofOk, accepts) # "ok"
    THEN Revert("swapROLLForETH", sender, <<rollAmount, encryptedAmount, proofOk, accepts>>,
                swapROLLForETHErr(rollAmount, proofOk, accepts))
    ELSE /\ playerBalance' = [playerBalance EXCEPT
                ![sender] = Sub32(Val32(@), encryptedAmount)]
         /\ treasury' = BigSub(treasury, EthFor(rollAmount))
         /\ log' = Append(log, [type |-> "TokensSwapped", user |-> sender,
                                ethAmount |-> EthFor(rollAmount),
                                rollAmount |-> U32ToBig(rollAmount),
                                ethToRoll |-> FALSE])
         /\ Step
         /\ last' = [Call("swapROLLForETH", sender,
                             <<rollAmount, encryptedAmount, proofOk, accepts>>)
                        EXCEPT !.paid = EthFor(rollAmount)]
         /\ atStart' = Touched(sender)
         /\ acl' = [acl EXCEPT !.balance[sender] = SetPermissions(sender)]
         /\ UNCHANGED <<owner, gameCounter, games, playerGames, chain, failed, submitted>>

(***************************************************************************)
(* addTreasuryETH() payable onlyOwner                                      *)
(***************************************************************************)
\* addTreasuryETHErr without the require on msg.value
addTreasuryETHErrZeroAllowed(sender, value) ==
    IF sender # owner THEN "OnlyOwner" ELSE "ok"

\* addTreasuryETHErr without the onlyOwner modifier
addTreasuryETHErrAnyone(sender, value) ==
    IF value = Big(0) THEN "Must send ETH" ELSE "ok"

addTreasuryETHErr(sender, value) ==
    IF sender # owner THEN "OnlyOwner"
    ELSE IF value = Big(0) THEN "Must send ETH"
    ELSE "ok"

addTreasuryETH(sender, value) ==
    IF addTreasuryETHErr(sender, value) # "ok"
    THEN Revert("addTreasuryETH", sender, <<value>>, addTreasuryETHErr(sender, value))
    ELSE /\ treasury' = BigAdd(treasury, value)
         /\ log' = Append(log, [type |-> "TreasuryFunded", funder |-> sender, amount |-> value])
         /\ Succeed("addTreasuryETH", sender, <<value>>)
         /\ UNCHANGED <<owner, gameCounter, playerBalance, games, playerGames, acl, chain>>

(***************************************************************************)
(* startGame(diceCount, encryptedPrediction, predictionProof,              *)
(*           encryptedStake, stakeProof)                                   *)
(* prediction, stake: the clear values of the two external ciphertexts;    *)
(* predictionOk, stakeOk: whether FHE.fromExternal accepts their proofs.   *)
(***************************************************************************)
\* validDiceCount with the upper limit off by one
validDiceCountUpTo4(diceCount) == ~(diceCount < 1 \/ diceCount > 4)

validDiceCount(diceCount) == ~(diceCount < 1 \/ diceCount > 3)

startGameErr(diceCount, predictionOk, stakeOk) ==
    IF ~validDiceCount(diceCount) THEN "InvalidDiceCount"
    ELSE IF ~predictionOk \/ ~stakeOk THEN "InvalidProof"
    ELSE "ok"

\* the id taken after the increment
NewGameIdPreIncrement == gameCounter + 1

\* the slot of the game before taken again
NewGameIdLastSlot == IF gameCounter = 0 THEN gameCounter ELSE gameCounter - 1

\* uint256 gameId = gameCounter++ : the id is the counter before the increment
NewGameId == gameCounter

\* the counter left as it was
CounterNotAdvanced == gameCounter

CounterAfterStart == gameCounter + 1

\* the stake granted to the contract alone
StakeGrantsThisOnly(sender) == allowThis({})

\* FHE.allowThis(game.stakeAmount); FHE.allow(game.stakeAmount, msg.sender)
StakeGrants(sender) == SetPermissions(sender)

\* the array with its last slot missing
NewDiceValuesOneShort(diceCount) == [i \in 1 .. diceCount - 1 |-> NullHandle]

\* game.diceValues = new euint32[](diceCount): diceCount slots, none written yet
NewDiceValues(diceCount) == [i \in 1 .. diceCount |-> NullHandle]

startGame(sender, diceCount, prediction, predictionOk, stake, stakeOk) ==
    LET gameId == NewGameId
    IN  IF startGameErr(diceCount, predictionOk, stakeOk) # "ok"
        THEN Revert("startGame", sender, <<diceCount, prediction, stake>>,
                    startGameErr(diceCount, predictionOk, stakeOk))
        ELSE /\ Step
             /\ gameCounter' = CounterAfterStart
             /\ games' = [games EXCEPT ![gameId] =
                    [player |-> sender,
                     diceCount |-> diceCount,
                     prediction |-> Lit8(prediction),
                     stakeAmount |-> stake,
                     diceValues |-> NewDiceValues(diceCount),
                     timestamp |-> blockTimestamp,
                     isResolved |-> FALSE]]
             /\ playerBalance' = [playerBalance EXCEPT
                    ![sender] = Sub32(Val32(@), stake)]
             /\ playerGames' = [playerGames EXCEPT ![sender] = Append(@, gameId)]
             /\ log' = Append(log, [type |-> "GameStarted", gameId |-> gameId,
                                    player |-> sender, diceCount |-> diceCount,
                                    timestamp |-> blockTimestamp])
             /\ last' = Call("startGame", sender, <<diceCount, prediction, stake>>)
             /\ atStart' = [Touched(sender) EXCEPT ![gameId] =
                    [before |-> Val32(playerBalance[sender]), quiet |-> TRUE]]
             /\ acl' = [acl EXCEPT
                    !.balance[sender] = SetPermissions(sender),
                    !.prediction[gameId] = SetPermissions(sender),
                    !.stakeAmount[gameId] = StakeGrants(sender),
                    !.diceValues[gameId] = [i \in 1 .. diceCount |-> {}]]
             /\ UNCHANGED <<owner, treasury, chain, failed, submitted>>

(***************************************************************************)
(* resolveGame(gameId)                                                     *)
(***************************************************************************)
\* stands for uint256(keccak256(abi.encodePacked(timestamp, prevrandao, gameId, i))):
\* a fixed function of the four packed values
Keccak256(timestamp, seed, gameId, i) ==
    seed * seed * seed + timestamp + gameId
        + (seed + timestamp) * i * i + 3 * i * (gameId + 1) + seed * i

\* randomValue without the + 1
randomValueFromZero(timestamp, seed, gameId, i) ==
    Keccak256(timestamp, seed, gameId, i) % 6

randomValue(timestamp, seed, gameId, i) ==
    (Keccak256(timestamp, seed, gameId, i) % 6) + 1

\* the dice of the loop, die i (0-based) stored at position i + 1
RollDice(timestamp, seed, gameId, diceCount) ==
    [k \in 1 .. diceCount |-> Lit32(randomValue(timestamp, seed, gameId, k - 1))]

\* the running sum of the loop after n dice
RECURSIVE DiceSum(_, _)
DiceSum(dice, n) ==
    IF n = 0 THEN Lit32(0) ELSE Add32(DiceSum(dice, n - 1), dice[n])

\* won with the prediction read as "odd exactly when it is 1"
WonOddIsOne(dice, prediction) ==
    LET sum == DiceSum(dice, Len(dice))
        isOdd == (And32(sum, Lit32(1)) = Lit32(1))
        predictedOdd == (prediction = Lit8(1))
    IN  isOdd = predictedOdd

\* ebool won of resolveGame
Won(dice, prediction) ==
    LET sum == DiceSum(dice, Len(dice))
        leastBit == And32(sum, Lit32(1))
        isEven == (leastBit = Lit32(0))
        predictedEven == (prediction = Lit8(0))
    IN  isEven = predictedEven

\* euint32 finalPayout of resolveGame
FinalPayout(won, stakeAmount) ==
    LET doublePayout == Add32(Val32(stakeAmount), Val32(stakeAmount))
    IN  IF won THEN doublePayout ELSE Lit32(0)

\* resolveGameErr with the two checks in the other order
resolveGameErrResolvedFirst(sender, gameId) ==
    IF games[gameId].isResolved THEN "GameAlreadyResolved"
    ELSE IF games[gameId].player # sender THEN "OnlyGamePlayer"
    ELSE "ok"

\* resolveGameErr without the isResolved check
resolveGameErrNoGate(sender, gameId) ==
    IF games[gameId].player # sender THEN "OnlyGamePlayer" ELSE "ok"

\* resolveGameErr without the onlyGamePlayer check
resolveGameErrAnyPlayer(sender, gameId) ==
    IF games[gameId].isResolved THEN "GameAlreadyResolved" ELSE "ok"

\* resolveGameErr refusing a game of an earlier block
resolveGameErrSameBlockOnly(sender, gameId) ==
    IF games[gameId].player # sender THEN "OnlyGamePlayer"
    ELSE IF games[gameId].isResolved THEN "GameAlreadyResolved"
    ELSE IF games[gameId].timestamp # blockTimestamp THEN "GameExpired"
    ELSE "ok"

resolveGameErr(sender, gameId) ==
    IF games[gameId].player # sender THEN "OnlyGamePlayer"
    ELSE IF games[gameId].isResolved THEN "GameAlreadyResolved"
    ELSE "ok"

resolveGame(sender, gameId) ==
    LET game == games[gameId]
    IN  IF resolveGameErr(sender, gameId) # "ok"
        THEN Revert("resolveGame", sender, <<gameId>>, resolveGameErr(sender, gameId))
        ELSE LET dice == RollDice(blockTimestamp, prevrandao, gameId, game.diceCount)
                 won == Won(dice, game.prediction)
                 finalPayout == FinalPayout(won, game.stakeAmount)
             IN  /\ Step
                 /\ games' = [games EXCEPT ![gameId].diceValues = dice,
                                           ![gameId].isResolved = TRUE]
                 /\ playerBalance' = [playerBalance EXCEPT
                        ![sender] = Add32(Val32(@), finalPayout)]
                 /\ log' = Append(log, [type |-> "GameResolved", gameId |-> gameId,
                                        player |-> sender, timestamp |-> blockTimestamp])
                 /\ last' = [Call("resolveGame", sender, <<gameId>>)
                                EXCEPT !.won = won, !.payout = finalPayout]
                 /\ atStart' = [Touched(sender) EXCEPT ![gameId] = atStart[gameId]]
                 /\ acl' = [acl EXCEPT
                        !.balance[sender] = SetPermissions(sender),
                        !.diceValues[gameId] =
                            [i \in 1 .. game.diceCount |-> SetPermissions(sender)],
                        !.won[gameId] = SetPermissions(sender)]
                 /\ UNCHANGED <<owner, gameCounter, playerGames, treasury, chain,
                                 failed, submitted>>

(***************************************************************************)
(* The read accessors reserved to a game's player.                         *)
(***************************************************************************)
getGameDiceValuesErr(sender, gameId) ==
    IF games[gameId].player # sender THEN "OnlyGamePlayer" ELSE "ok"

\* what getGameDiceValues(gameId) returns to the game's player
getGameDiceValues(gameId) == games[gameId].diceValues

\* getGamePrediction letting the contract owner read too
getGamePredictionErrOwnerToo(sender, gameId) ==
    IF games[gameId].player # sender /\ sender # owner THEN "OnlyGamePlayer" ELSE "ok"

getGamePredictionErr(sender, gameId) ==
    IF games[gameId].player # sender THEN "OnlyGamePlayer" ELSE "ok"

getGamePrediction(gameId) == games[gameId].prediction

getGameStakeErr(sender, gameId) ==
    IF games[gameId].player # sender THEN "OnlyGamePlayer" ELSE "ok"

getGameStake(gameId) == games[gameId].stakeAmount

(***************************************************************************)
(* The open read accessors.                                                *)
(***************************************************************************)
getPlayerGames(player) == playerGames[player]

\* the count of all games instead of the player's
getPlayerGameCountGlobal(player) == gameCounter

getPlayerGameCount(player) == Len(playerGames[player])

\* a ciphertext is decrypted for an account granted together with the
\* contract, and for anyone once it is publicly decryptable
CanDecrypt(grants, account) == {This, account} \subseteq grants \/ Public \in grants

(***************************************************************************)
(* makeBalancePubliclyDecryptable(player)                                  *)
(***************************************************************************)
\* makeBalancePubliclyDecryptableErr without the require on msg.sender
makeBalancePubliclyDecryptableErrAnyone(sender, player, aclAccepts) ==
    IF playerBalance[player] = NullHandle /\ ~aclAccepts THEN "SenderNotAllowed" ELSE "ok"

\* aclAccepts: whether the library accepts a balance that was never written
makeBalancePubliclyDecryptableErr(sender, player, aclAccepts) ==
    IF ~(sender = player \/ sender = owner) THEN "Unauthorized"
    ELSE IF playerBalance[player] = NullHandle /\ ~aclAccepts THEN "SenderNotAllowed"
    ELSE "ok"

makeBalancePubliclyDecryptable(sender, player, aclAccepts) ==
    IF makeBalancePubliclyDecryptableErr(sender, player, aclAccepts) # "ok"
    THEN Revert("makeBalancePubliclyDecryptable", sender, <<player>>,
                makeBalancePubliclyDecryptableErr(sender, player, aclAccepts))
    ELSE /\ acl' = [acl EXCEPT !.balance[player] = makePubliclyDecryptable(@)]
         /\ Succeed("makeBalancePubliclyDecryptable", sender, <<player>>)
         /\ UNCHANGED <<owner, gameCounter, playerBalance, games, playerGames, treasury,
                         log, chain>>

(***************************************************************************)
(* getContractETHBalance()                                                 *)
(***************************************************************************)
getContractETHBalance == treasury

(***************************************************************************)
(* withdrawETH() onlyOwner                                                 *)
(***************************************************************************)
\* withdrawETHErr without the onlyOwner modifier
withdrawETHErrAnyone(sender, accepts) ==
    IF ~accepts THEN "TransferFailed" ELSE "ok"

withdrawETHErr(sender, accepts) ==
    IF sender # owner THEN "OnlyOwner"
    ELSE IF ~accepts THEN "TransferFailed"
    ELSE "ok"

withdrawETH(sender, accepts) ==
    IF withdrawETHErr(sender, accepts) # "ok"
    THEN Revert("withdrawETH", sender, <<accepts>>, withdrawETHErr(sender, accepts))
    ELSE /\ treasury' = BigSub(treasury, treasury)
         /\ Step
         /\ last' = [Call("withdrawETH", sender, <<accepts>>) EXCEPT !.paid = treasury]
         /\ atStart' = Touched(sender)
         /\ UNCHANGED <<owner, gameCounter, playerBalance, games, playerGames, log, acl,
                         chain, failed, submitted>>

(***************************************************************************)
(* receive() / fallback(): a plain native transfer to the contract         *)
(***************************************************************************)
\* a plain transfer whose value is not kept
receiveKeepsNothing(sender, value) ==
    /\ Succeed("receive", sender, <<value>>)
    /\ UNCHANGED <<contractState, chain>>

receive(sender, value) ==
    /\ treasury' = BigAdd(treasury, value)
    /\ Succeed("receive", sender, <<value>>)
    /\ UNCHANGED <<owner, gameCounter, playerBalance, games, playerGames, log, acl, chain>>

(***************************************************************************)
(* Spec: every entry point of the contract, each game submitted with the   *)
(* same prediction and stake.                                              *)
(***************************************************************************)
Init == InitWith({[prediction |-> 0, stake |-> Lit32(100)]}, {0})

Next ==
    \/ NewBlock(1)
    \/ mintTokens("alice", Big(1000))
    \/ swapETHForROLL("alice", OneEther)
    \/ swapROLLForETH("alice", Lit32(1000), Lit32(1000), TRUE, TRUE)
    \/ \E a \in {Deployer, "bob"} : addTreasuryETH(a, OneEther)
    \/ startGame("alice", 1, submitted.prediction, TRUE, submitted.stake, TRUE)
    \/ \E n \in {0, 3, 4}, pOk \in BOOLEAN :
          startGame("bob", n, submitted.prediction, pOk, submitted.stake, TRUE)
    \/ \E a \in Players, g \in 0 .. gameCounter : resolveGame(a, g)
    \/ \E a \in {Deployer, "bob"}, aclAccepts \in BOOLEAN :
          makeBalancePubliclyDecryptable(a, "alice", aclAccepts)
    \/ \E a \in {Deployer, "bob"} : withdrawETH(a, TRUE)
    \/ receive("bob", OneEther)
    \/ DropReceipt

Spec == Init /\ [][Next]_vars

(***************************************************************************)
(* SpecOutcome: one player's games over the range of predictions, stakes,  *)
(* dice counts and block seeds.                                            *)
(***************************************************************************)
Predictions == {0, 1, 2, 255}

Stakes == {Lit32(1), Lit32(100), U32(32767, 65535), U32(32768, 0), U32(65535, 65535)}

Seeds == 0 .. 3

InitOutcome == InitWith([prediction : Predictions, stake : Stakes], {0})

NextOutcome ==
    \/ \E seed \in Seeds : NewBlock(seed)
    \/ mintTokens("alice", Big(1000))
    \/ \E n \in 1 .. 3 :
          startGame("alice", n, submitted.prediction, TRUE, submitted.stake, TRUE)
    \/ \E g \in 0 .. gameCounter : resolveGame("alice", g)
    \/ DropReceipt

SpecOutcome == InitOutcome /\ [][NextOutcome]_vars

(***************************************************************************)
(* Steps, as seen in the event log and in the receipt of a reverted call.  *)
(***************************************************************************)
Emitted(type) ==
    /\ Len(log') = Len(log) + 1
    /\ log'[Len(log')].type = type

\* this step is the successful startGame that created game g
StartedStep(g) == Emitted("GameStarted") /\ log'[Len(log')].gameId = g

\* this step is a successful resolveGame(g)
ResolvedStep(g) == Emitted("GameResolved") /\ log'[Len(log')].gameId = g

\* this step is a call of op that reverted
RevertedStep(op) == Idle /\ failed'.op = op

(***************************************************************************)
(* C1: once resolveGame(g) has succeeded, every further resolveGame(g) by   *)
(* the game's player reverts with GameAlreadyResolved and leaves the whole  *)
(* contract state as it was; no second resolution (and so no second         *)
(* payout) of g ever happens.                                               *)
(***************************************************************************)
C1_SecondResolveFails ==
    [][\A g \in GameIds :
          games[g].isResolved =>
             /\ ~ResolvedStep(g)
             /\ (RevertedStep("resolveGame") /\ failed'.arg[1] = g
                    /\ failed'.sender = games[g].player)
                   => (failed'.err = "GameAlreadyResolved" /\ UNCHANGED contractState)]_vars

C1_Witness ==
    /\ failed.op = "resolveGame"
    /\ failed.err = "GameAlreadyResolved"
    /\ games[failed.arg[1]].isResolved
    /\ games[failed.arg[1]].player = failed.sender

(***************************************************************************)
(* C2: a game is unresolved from its creation until its first successful   *)
(* resolveGame and resolved in every state after it: the flag only goes    *)
(* from false to true, only in a successful resolveGame of that game, and  *)
(* no step, a later startGame included, turns it back.                     *)
(***************************************************************************)
C2_ResolvedOnce ==
    [][\A g \in GameIds :
          /\ games[g].isResolved => games'[g].isResolved
          /\ (~games[g].isResolved /\ games'[g].isResolved)
                => (ResolvedStep(g) /\ g < gameCounter)
          /\ ResolvedStep(g) => (~games[g].isResolved /\ games'[g].isResolved)
          /\ StartedStep(g) => ~games'[g].isResolved
          /\ g >= gameCounter' => ~games'[g].isResolved]_vars

C2_Witness ==
    /\ gameCounter = 2
    /\ games[0].isResolved
    /\ ~games[1].isResolved
    /\ log[Len(log)].type = "GameStarted"

(***************************************************************************)
(* C3: game ids are handed out in sequence from 0: gameCounter is the      *)
(* number of successful startGame calls, the k-th of them (from 0) created *)
(* game k for its caller, exactly the ids below gameCounter are in use,    *)
(* the counter never decreases and a reverted startGame takes no id.       *)
(***************************************************************************)
StartedBefore(i) == Cardinality({j \in 1 .. (i - 1) : log[j].type = "GameStarted"})

IdsSequential ==
    /\ gameCounter = NoEvents({"GameStarted"})
    /\ \A i \in 1 .. Len(log) :
          log[i].type = "GameStarted" =>
             /\ log[i].gameId = StartedBefore(i)
             /\ games[log[i].gameId].player = log[i].player
    /\ \A g \in GameIds : (g < gameCounter) <=> (games[g].player # ZeroAddress)

C3_SequentialIds ==
    [][/\ IdsSequential'
       /\ gameCounter' >= gameCounter
       /\ \A g \in GameIds : StartedStep(g) => (g = gameCounter /\ gameCounter' = g + 1)
       /\ RevertedStep("startGame") => (gameCounter' = gameCounter /\ games' = games)]_vars

C3_Witness ==
    /\ gameCounter = 2
    /\ games[0].player # games[1].player
    /\ failed.op = "startGame"

(***************************************************************************)
(* C4: a startGame whose diceCount is not 1, 2 or 3 reverts with           *)
(* InvalidDiceCount, whatever the proofs, and changes nothing: no game     *)
(* record, counter, game list, balance or event; every game that is        *)
(* created has a diceCount of 1, 2 or 3.                                   *)
(***************************************************************************)
C4_InvalidDiceCount ==
    [][/\ (RevertedStep("startGame") /\ failed'.arg[1] \notin 1 .. 3)
             => (failed'.err = "InvalidDiceCount" /\ UNCHANGED contractState)
       /\ \A g \in GameIds :
             StartedStep(g) => (last'.arg[1] \in 1 .. 3 /\ games'[g].diceCount = last'.arg[1])]_vars

C4_Witness ==
    /\ failed.op = "startGame"
    /\ failed.arg[1] = 4
    /\ failed.err = "InvalidDiceCount"
    /\ gameCounter = 1

(***************************************************************************)
(* C5: resolveGame(gameId) by anyone but the game's stored player reverts  *)
(* with OnlyGamePlayer, for ids never created and for resolved games too,  *)
(* and changes nothing; a game is only ever resolved by the account that   *)
(* started it.                                                             *)
(***************************************************************************)
C5_OnlyPlayerResolves ==
    [][/\ (RevertedStep("resolveGame") /\ failed'.sender # games[failed'.arg[1]].player)
             => (failed'.err = "OnlyGamePlayer" /\ UNCHANGED contractState)
       /\ \A g \in GameIds :
             ResolvedStep(g) =>
                /\ last'.sender = games[g].player
                /\ \E i \in 1 .. Len(log) :
                      /\ log[i].type = "GameStarted"
                      /\ log[i].gameId = g
                      /\ log[i].player = last'.sender]_vars

C5_Witness ==
    /\ failed.op = "resolveGame"
    /\ failed.err = "OnlyGamePlayer"
    /\ games[failed.arg[1]].isResolved
    /\ games[failed.arg[1]].player # failed.sender

(***************************************************************************)
(* C6: the won value of a resolveGame is true exactly when "the sum of     *)
(* the stored dice faces is even" equals "the submitted prediction is 0":  *)
(* prediction 0 wins on an even sum, every other prediction on an odd one. *)
(***************************************************************************)
\* the sum of the first n faces, as a natural number
RECURSIVE FaceSum(_, _)
FaceSum(dice, n) == IF n = 0 THEN 0 ELSE FaceSum(dice, n - 1) + dice[n][2]

LastResolved == games[last.arg[1]]

C6_WonIffParityMatches ==
    last.op = "resolveGame" =>
       LET dice == LastResolved.diceValues
           sumIsEven == (FaceSum(dice, Len(dice)) % 2 = 0)
       IN  /\ Len(dice) = LastResolved.diceCount
           /\ last.won = (sumIsEven = (LastResolved.prediction[1] = 0))

C6_Witness ==
    /\ last.op = "resolveGame"
    /\ last.won
    /\ LastResolved.prediction = Lit8(2)
    /\ LastResolved.diceCount = 3

(***************************************************************************)
(* C7: a winning resolveGame pays out exactly twice the stake, a losing    *)
(* one pays out 0.                                                         *)
(***************************************************************************)
C7_PayoutIsDoubleStake ==
    last.op = "resolveGame" =>
       IF last.won
       THEN U32ToBig(last.payout) = BigMul(U32ToBig(LastResolved.stakeAmount), 2)
       ELSE last.payout = Zero32

(***************************************************************************)
(* C8: an account with balance B that starts a game with stake S <= B has  *)
(* balance B - S after startGame and, when its next call resolves that     *)
(* game, B - S or B + S afterwards.                                        *)
(***************************************************************************)
C8_StakeThenResolve ==
    \A g \in GameIds :
       LET game == games[g]
           before == U32ToBig(atStart[g].before)
           stake == U32ToBig(game.stakeAmount)
           balance == U32ToBig(Val32(playerBalance[game.player]))
       IN  (g < gameCounter /\ atStart[g].quiet /\ BigLeq(stake, before)) =>
              IF game.isResolved
              THEN balance \in {BigSub(before, stake), BigAdd(before, stake)}
              ELSE balance = BigSub(before, stake)

(***************************************************************************)
(* C10: the successful resolveGame of a game stores exactly diceCount dice *)
(* values, each a face from 1 to 6; afterwards they never change, and no   *)
(* other step writes a dice value (startGame only lays out the empty       *)
(* slots of its new game).                                                 *)
(***************************************************************************)
Faces == {Lit32(v) : v \in 1 .. 6}

C10_DiceWrittenOnce ==
    [][\A g \in GameIds :
          /\ ResolvedStep(g) =>
                /\ Len(games'[g].diceValues) = games[g].diceCount
                /\ \A i \in 1 .. Len(games'[g].diceValues) : games'[g].diceValues[i] \in Faces
          /\ games[g].isResolved => games'[g].diceValues = games[g].diceValues
          /\ games'[g].diceValues # games[g].diceValues =>
                \/ ResolvedStep(g)
                \/ /\ StartedStep(g)
                   /\ \A i \in 1 .. Len(games'[g].diceValues) :
                         games'[g].diceValues[i] = NullHandle]_vars

C10_Witness ==
    /\ games[0].isResolved
    /\ games[0].diceCount = 3
    /\ Len(games[0].diceValues) = 3
    /\ last.op = "mintTokens"

(***************************************************************************)
(* C11: while a game is created and not yet resolved, reading its dice     *)
(* values as its player returns no face value: the sequence holds exactly  *)
(* diceCount slots, every one of them the empty handle.                    *)
(***************************************************************************)
Active(g) == g < gameCounter /\ ~games[g].isResolved

C11_ActiveGameHasNoFaces ==
    \A g \in GameIds :
       Active(g) =>
          /\ getGameDiceValuesErr(games[g].player, g) = "ok"
          /\ Len(getGameDiceValues(g)) = games[g].diceCount
          /\ \A i \in 1 .. Len(getGameDiceValues(g)) : getGameDiceValues(g)[i] = NullHandle

C11_Witness ==
    \E g \in GameIds :
       Active(g) /\ games[g].diceCount = 3 /\ Len(getGameDiceValues(g)) = 3

\* C11 as stated: the sequence read from an active game is empty
C11_EmptyUntilResolved ==
    \A g \in GameIds : Active(g) => getGameDiceValues(g) = <<>>

(***************************************************************************)
(* SpecMint: two accounts mint the amounts a, b and a + b of the run.      *)
(***************************************************************************)
MintAmounts ==
    {Big(500), Big(10001), U32ToBig(MaxUint32), BigAdd(U32ToBig(MaxUint32), Big(1)),
     Ether(6000), MAX_MINT}

InitMint == InitWith([a : MintAmounts, b : MintAmounts], {0})

NextMint ==
    \/ \E p \in Players :
          \E amount \in {submitted.a, submitted.b, BigAdd(submitted.a, submitted.b)} :
             mintTokens(p, amount)
    \/ DropReceipt

SpecMint == InitMint /\ [][NextMint]_vars

\* the TokensMinted records of account x, in order
Minted(x) ==
    SelectSeq(log, LAMBDA e : IF e.type = "TokensMinted" THEN e.user = x ELSE FALSE)

\* x has minted what y has minted and then two more amounts
TwoMore(x, y) ==
    /\ Len(Minted(x)) = Len(Minted(y)) + 2
    /\ \A i \in 1 .. Len(Minted(y)) : Minted(x)[i].amount = Minted(y)[i].amount

\* the sum of the last two amounts x minted
LastTwo(x) ==
    BigAdd(Minted(x)[Len(Minted(x)) - 1].amount, Minted(x)[Len(Minted(x))].amount)

\* x has minted what y has minted, except that x's last two mints are one
\* mint of their sum for y
SplitOf(x, y) ==
    /\ Len(Minted(y)) >= 1
    /\ Len(Minted(x)) = Len(Minted(y)) + 1
    /\ \A i \in 1 .. Len(Minted(y)) - 1 : Minted(x)[i].amount = Minted(y)[i].amount
    /\ Minted(y)[Len(Minted(y))].amount = LastTwo(x)

\* y's mint of the sum of x's last two amounts has just reverted
SumRefused(x, y) ==
    /\ TwoMore(x, y)
    /\ failed.op = "mintTokens"
    /\ failed.sender = y
    /\ failed.arg[1] = LastTwo(x)

(***************************************************************************)
(* C17: from equal histories, mintTokens(a) followed by mintTokens(b)      *)
(* leaves the same balance as one mintTokens(a + b), for all amounts with  *)
(* a + b within MAX_MINT: the single mint is then accepted too.            *)
(***************************************************************************)
C17_MintAdditiveWithinCap ==
    \A x \in Players : \A y \in Players \ {x} :
       /\ SplitOf(x, y) => Val32(playerBalance[x]) = Val32(playerBalance[y])
       /\ SumRefused(x, y) => BigLess(MAX_MINT, LastTwo(x))

C17_Witness ==
    /\ SplitOf("alice", "bob")
    /\ Len(Minted("bob")) = 1
    /\ Minted("alice")[1].amount = U32ToBig(MaxUint32)
    /\ Minted("alice")[2].amount = Big(500)
    /\ playerBalance["bob"] = Lit32(499)

\* C17 as stated: for all amounts a and b, the single mint of a + b gives
\* the balance the two mints gave
C17_MintAdditive ==
    \A x \in Players : \A y \in Players \ {x} :
       (SplitOf(x, y) \/ SumRefused(x, y)) =>
          Val32(playerBalance[x]) = Val32(playerBalance[y])

\* this step is a successful mintTokens
MintedStep == Emitted("TokensMinted")

(***************************************************************************)
(* C18: every successful mintTokens(amount) raises the caller's balance    *)
(* by exactly amount and records TokensMinted(caller, amount).             *)
(***************************************************************************)
C18_MintCreditsAmount ==
    [][MintedStep =>
          LET minted == log'[Len(log')]
          IN  /\ minted.user = last'.sender
              /\ minted.amount = last'.arg[1]
              /\ U32ToBig(Val32(playerBalance'[minted.user]))
                    = BigAdd(U32ToBig(Val32(playerBalance[minted.user])), minted.amount)]_vars

(***************************************************************************)
(* C19: mintTokens reverts with MaxMintExceeded, changing nothing, for     *)
(* every amount above 10000 ROLL, and succeeds for every amount up to      *)
(* 10000 ROLL.                                                             *)
(***************************************************************************)
C19_MintLimit ==
    [][/\ MintedStep => BigLeq(log'[Len(log')].amount, Big(10000))
       /\ RevertedStep("mintTokens") =>
             /\ failed'.err = "MaxMintExceeded"
             /\ BigLess(Big(10000), failed'.arg[1])
             /\ UNCHANGED contractState]_vars

(***************************************************************************)
(* SpecSwap: one account buys and sells with the payment and the sell      *)
(* amounts of the run, while the treasury is funded and withdrawn.         *)
(***************************************************************************)
BuyValues ==
    {Big(0), OneEther, BigAdd(MilliEther(Big(2)), Big(999)),
     MilliEther(U32ToBig(MaxUint32)), MilliEther(BigAdd(U32ToBig(MaxUint32), Big(1)))}

\* the claimed amount and the clear value of the ciphertext of a sell
SellAmounts ==
    {<<Zero32, Zero32>>, <<Lit32(1000), Lit32(1000)>>, <<Lit32(1000), Zero32>>,
     <<Lit32(2000), Lit32(2000)>>, <<Lit32(1000), MaxUint32>>}

InitSwap == InitWith([value : BuyValues, sell : SellAmounts], {0})

NextSwap ==
    \/ mintTokens("alice", U32ToBig(MaxUint32))
    \/ swapETHForROLL("alice", submitted.value)
    \/ \E proofOk \in BOOLEAN, accepts \in BOOLEAN :
          swapROLLForETH("alice", submitted.sell[1], submitted.sell[2], proofOk, accepts)
    \/ \E a \in {Deployer, "bob"} : addTreasuryETH(a, OneEther)
    \/ \E a \in {Deployer, "bob"}, accepts \in BOOLEAN : withdrawETH(a, accepts)
    \/ DropReceipt

SpecSwap == InitSwap /\ [][NextSwap]_vars

\* this step is a successful call of op
SucceededStep(op) ==
    /\ steps' = steps + 1
    /\ blockTimestamp' = blockTimestamp
    /\ last'.op = op

\* this step is a successful swapETHForROLL / swapROLLForETH
BoughtStep == Emitted("TokensSwapped") /\ log'[Len(log')].ethToRoll

SoldStep == Emitted("TokensSwapped") /\ ~log'[Len(log')].ethToRoll

\* the caller's balance as a number, before and after the step
BalanceOf(a) == U32ToBig(Val32(playerBalance[a]))

BalanceAfter(a) == U32ToBig(Val32(playerBalance'[a]))

(***************************************************************************)
(* C12: a sell of claimed amount 0 reverts (amount must be greater than    *)
(* 0); a sell of amt > 0 reverts for insufficient treasury exactly when    *)
(* amt * 1 ether / 1000 exceeds the treasury; a reverted sell changes      *)
(* nothing; a successful sell lowers the treasury by exactly               *)
(* amt * 1 ether / 1000, paid to the caller, out of a treasury that holds  *)
(* at least that much.                                                     *)
(***************************************************************************)
C12_SellChecksTreasury ==
    [][/\ RevertedStep("swapROLLForETH") =>
             LET amt == failed'.arg[1]
             IN  /\ UNCHANGED contractState
                 /\ amt = Zero32 => failed'.err = "Amount must be greater than 0"
                 /\ (amt # Zero32 /\ BigLess(treasury, EthFor(amt))) =>
                       failed'.err = "Insufficient contract ETH balance"
                 /\ failed'.err = "Insufficient contract ETH balance" =>
                       BigLess(treasury, EthFor(amt))
       /\ SoldStep =>
             LET amt == last'.arg[1]
             IN  /\ amt # Zero32
                 /\ BigLeq(EthFor(amt), treasury)
                 /\ BigAdd(treasury', EthFor(amt)) = treasury
                 /\ last'.paid = EthFor(amt)]_vars

C12_Witness ==
    /\ failed.op = "swapROLLForETH"
    /\ failed.err = "Insufficient contract ETH balance"
    /\ failed.arg[1] = Lit32(2000)
    /\ treasury = OneEther

(***************************************************************************)
(* C13: a successful sell lowers the caller's balance by exactly the       *)
(* claimed amount amt.                                                     *)
(***************************************************************************)
C13_SellDebitsClaimedAmount ==
    [][SoldStep =>
          BigAdd(BalanceAfter(last'.sender), U32ToBig(last'.arg[1]))
             = BalanceOf(last'.sender)]_vars

(***************************************************************************)
(* C14: the sell checks the treasury and pays out by the claimed amount    *)
(* alone and debits the balance by the ciphertext amount alone: it reverts *)
(* only for a zero claimed amount, a short treasury, a rejected proof or   *)
(* a refused transfer, whatever the ciphertext amount and the balance are. *)
(***************************************************************************)
C14_SellTrustsClaimedAmount ==
    [][/\ SoldStep =>
             LET amt == last'.arg[1]
                 enc == last'.arg[2]
                 caller == last'.sender
             IN  /\ BigAdd(treasury', EthFor(amt)) = treasury
                 /\ last'.paid = EthFor(amt)
                 /\ log'[Len(log')].ethAmount = EthFor(amt)
                 /\ playerBalance'[caller] = Sub32(Val32(playerBalance[caller]), enc)
       /\ RevertedStep("swapROLLForETH") =>
             \/ failed'.arg[1] = Zero32
             \/ BigLess(treasury, EthFor(failed'.arg[1]))
             \/ ~failed'.arg[3]
             \/ ~failed'.arg[4]]_vars

C14_Witness ==
    /\ last.op = "swapROLLForETH"
    /\ last.arg[1] = Lit32(1000)
    /\ last.arg[2] = Zero32
    /\ last.paid = OneEther
    /\ playerBalance[last.sender] = Zero32

(***************************************************************************)
(* C15: a successful buy with payment n raises the caller's balance B to   *)
(* B + floor(n * 1000 / 1 ether), raises the treasury by exactly n and     *)
(* records TokensSwapped(caller, n, token amount, true).                   *)
(***************************************************************************)
C15_BuyCreditsTokens ==
    [][BoughtStep =>
          LET n == last'.arg[1]
              caller == last'.sender
              swapped == log'[Len(log')]
          IN  /\ BalanceAfter(caller) = BigAdd(BalanceOf(caller), RollFor(n))
              /\ treasury' = BigAdd(treasury, n)
              /\ swapped.user = caller
              /\ swapped.ethAmount = n
              /\ swapped.rollAmount = RollFor(n)]_vars

(***************************************************************************)
(* C16: a buy with payment 0 reverts with NoETHSent; a buy whose token     *)
(* amount floor(n * 1000 / 1 ether) is above 2^32 - 1 reverts as too       *)
(* large; a reverted buy changes nothing; the amount a successful buy      *)
(* adds to the balance is the recorded token amount, never a truncation    *)
(* of it.                                                                  *)
(***************************************************************************)
C16_BuyRejectsZeroAndTooLarge ==
    [][/\ RevertedStep("swapETHForROLL") =>
             LET n == failed'.arg[1]
             IN  /\ UNCHANGED contractState
                 /\ IF n = Big(0) THEN failed'.err = "NoETHSent"
                    ELSE /\ failed'.err = "ROLL amount too large for uint32"
                         /\ BigLess(U32ToBig(MaxUint32), RollFor(n))
       /\ BoughtStep =>
             LET n == last'.arg[1]
                 caller == last'.sender
                 credited == Sub32(Val32(playerBalance'[caller]), Val32(playerBalance[caller]))
             IN  /\ n # Big(0)
                 /\ BigLeq(RollFor(n), U32ToBig(MaxUint32))
                 /\ U32ToBig(credited) = log'[Len(log')].rollAmount
                 /\ U32ToBig(credited) = RollFor(n)]_vars

C16_Witness ==
    /\ failed.op = "swapETHForROLL"
    /\ failed.err = "ROLL amount too large for uint32"
    /\ RollFor(failed.arg[1]) = BigAdd(U32ToBig(MaxUint32), Big(1))

(***************************************************************************)
(* C20: withdrawETH by anyone but the owner reverts with OnlyOwner and     *)
(* changes nothing; by the owner it pays the whole treasury to the owner   *)
(* and leaves the treasury at 0, an empty treasury included (it reverts    *)
(* for the owner only when the owner's account refuses the transfer).      *)
(***************************************************************************)
C20_OnlyOwnerWithdrawsAll ==
    [][/\ RevertedStep("withdrawETH") =>
             /\ UNCHANGED contractState
             /\ IF failed'.sender # owner THEN failed'.err = "OnlyOwner"
                ELSE failed'.err = "TransferFailed" /\ ~failed'.arg[1]
       /\ SucceededStep("withdrawETH") =>
             /\ last'.sender = owner
             /\ last'.paid = treasury
             /\ treasury' = Big(0)
             /\ UNCHANGED <<owner, gameCounter, playerBalance, games, playerGames, log>>]_vars

C20_Witness ==
    /\ last.op = "withdrawETH"
    /\ last.sender = owner
    /\ last.paid = OneEther
    /\ treasury = Big(0)

(***************************************************************************)
(* SpecCalls: every entry point, called with inputs it accepts and with    *)
(* inputs it refuses.                                                      *)
(***************************************************************************)
InitCalls == InitWith({[prediction |-> 1, stake |-> Lit32(100)]}, {0})

NextCalls ==
    \/ \E amount \in {Big(1000), BigAdd(MAX_MINT, Big(1))} : mintTokens("alice", amount)
    \/ \E value \in {Big(0), OneEther, MilliEther(BigAdd(U32ToBig(MaxUint32), Big(1)))} :
          swapETHForROLL("alice", value)
    \/ \E rollAmount \in {Zero32, Lit32(1000)}, proofOk \in BOOLEAN, accepts \in BOOLEAN :
          swapROLLForETH("alice", rollAmount, rollAmount, proofOk, accepts)
    \/ \E a \in {Deployer, "bob"}, value \in {Big(0), OneEther} : addTreasuryETH(a, value)
    \/ \E n \in {0, 1, 4}, predictionOk \in BOOLEAN, stakeOk \in BOOLEAN :
          startGame("alice", n, submitted.prediction, predictionOk, submitted.stake, stakeOk)
    \/ \E a \in Players, g \in 0 .. gameCounter : resolveGame(a, g)
    \/ \E a \in Accounts, aclAccepts \in BOOLEAN :
          makeBalancePubliclyDecryptable(a, "alice", aclAccepts)
    \/ \E a \in {Deployer, "bob"}, accepts \in BOOLEAN : withdrawETH(a, accepts)
    \/ receive("bob", OneEther)
    \/ DropReceipt

SpecCalls == InitCalls /\ [][NextCalls]_vars

\* this step is a successful addTreasuryETH
FundedStep == Emitted("TreasuryFunded")

\* the sum of the amounts of the first n TreasuryFunded records
RECURSIVE FundedUpTo(_)
FundedUpTo(n) ==
    IF n = 0 THEN Big(0)
    ELSE IF log[n].type = "TreasuryFunded" THEN BigAdd(FundedUpTo(n - 1), log[n].amount)
    ELSE FundedUpTo(n - 1)

(***************************************************************************)
(* C21: addTreasuryETH reverts with OnlyOwner for every caller but the     *)
(* owner, whatever the amount sent, and reverts for the owner when the     *)
(* amount is zero; otherwise it raises the treasury by exactly the amount  *)
(* and records TreasuryFunded(owner, amount), one deposit after another.   *)
(***************************************************************************)
C21_OwnerFundsTreasury ==
    [][/\ RevertedStep("addTreasuryETH") =>
             /\ UNCHANGED contractState
             /\ IF failed'.sender # owner THEN failed'.err = "OnlyOwner"
                ELSE failed'.err = "Must send ETH" /\ failed'.arg[1] = Big(0)
       /\ SucceededStep("addTreasuryETH") =>
             /\ FundedStep
             /\ last'.sender = owner
             /\ last'.arg[1] # Big(0)
             /\ treasury' = BigAdd(treasury, last'.arg[1])
             /\ log'[Len(log')].funder = owner
             /\ log'[Len(log')].amount = last'.arg[1]
       /\ FundedStep => SucceededStep("addTreasuryETH")]_vars

C21_Witness ==
    /\ last.op = "addTreasuryETH"
    /\ FundedUpTo(Len(log)) = Ether(2)
    /\ treasury = Ether(2)

(***************************************************************************)
(* C22: the treasury changes only in a successful buy, sell, owner         *)
(* deposit, owner withdrawal or plain native transfer to the contract      *)
(* (receive / fallback); a deposit or withdrawal that changes it is the    *)
(* owner's.                                                                *)
(***************************************************************************)
OwnerTreasuryOps == {"addTreasuryETH", "withdrawETH"}

C22_TreasuryWriters ==
    [][treasury' # treasury =>
          /\ \E op \in {"swapETHForROLL", "swapROLLForETH", "receive"} \cup OwnerTreasuryOps :
                SucceededStep(op)
          /\ last'.op \in OwnerTreasuryOps => last'.sender = owner]_vars

C22_Witness ==
    /\ last.op = "receive"
    /\ last.sender = "bob"
    /\ last.sender # owner
    /\ treasury = OneEther

\* C22 as stated: buy, sell, owner deposit and owner withdrawal are the only
\* writers of the treasury
C22_OnlyEnumeratedWriters ==
    [][treasury' # treasury =>
          /\ \E op \in {"swapETHForROLL", "swapROLLForETH"} \cup OwnerTreasuryOps :
                SucceededStep(op)
          /\ last'.op \in OwnerTreasuryOps => last'.sender = owner]_vars

(***************************************************************************)
(* C23: getGamePrediction, getGameStake and getGameDiceValues revert with  *)
(* OnlyGamePlayer for every caller but the game's stored player, for ids   *)
(* never created too; for the player they do not revert, and the           *)
(* prediction and stake returned are the submitted ones, decryptable by    *)
(* the player, before and after the game is resolved.                      *)
(***************************************************************************)
Callers == Accounts \cup {ZeroAddress}

C23_OnlyPlayerReadsGame ==
    \A g \in GameIds :
       /\ \A a \in Callers :
             LET expected == IF a = games[g].player THEN "ok" ELSE "OnlyGamePlayer"
             IN  /\ getGamePredictionErr(a, g) = expected
                 /\ getGameStakeErr(a, g) = expected
                 /\ getGameDiceValuesErr(a, g) = expected
       /\ g < gameCounter =>
             /\ games[g].player \in Accounts
             /\ getGamePrediction(g) = Lit8(submitted.prediction)
             /\ getGameStake(g) = submitted.stake
             /\ CanDecrypt(acl.prediction[g], games[g].player)
             /\ Len(getGameDiceValues(g)) = games[g].diceCount
       /\ g >= gameCounter => games[g].player = ZeroAddress

C23_Witness ==
    /\ gameCounter = 2
    /\ games[0].isResolved
    /\ ~games[1].isResolved
    /\ getGamePrediction(0) = Lit8(255)
    /\ getGamePrediction(1) = Lit8(255)
    /\ getGamePredictionErr("bob", 0) = "OnlyGamePlayer"

(***************************************************************************)
(* C24: after every successful mintTokens, swapETHForROLL, swapROLLForETH, *)
(* startGame and resolveGame by an account, the grants of the account's    *)
(* new balance include the contract and the account; after startGame the   *)
(* grants of the game's prediction and stake include the contract and the  *)
(* player; after resolveGame so do the grants of every stored dice value   *)
(* and of won.                                                             *)
(***************************************************************************)
BalanceOps == {"mintTokens", "swapETHForROLL", "swapROLLForETH", "startGame", "resolveGame"}

C24_PermissionsSet ==
    [][/\ \A op \in BalanceOps :
             SucceededStep(op) => {This, last'.sender} \subseteq acl'.balance[last'.sender]
       /\ \A g \in GameIds :
             /\ StartedStep(g) =>
                   /\ {This, games'[g].player} \subseteq acl'.prediction[g]
                   /\ {This, games'[g].player} \subseteq acl'.stakeAmount[g]
             /\ ResolvedStep(g) =>
                   /\ Len(acl'.diceValues[g]) = Len(games'[g].diceValues)
                   /\ \A i \in 1 .. Len(games'[g].diceValues) :
                         {This, games'[g].player} \subseteq acl'.diceValues[g][i]
                   /\ {This, games'[g].player} \subseteq acl'.won[g]]_vars

C24_Witness ==
    /\ last.op = "resolveGame"
    /\ games[0].isResolved
    /\ acl.diceValues[0] = <<{This, "alice"}>>
    /\ acl.won[0] = {This, "alice"}
    /\ acl.stakeAmount[0] = {This, "alice"}
    /\ acl.balance["alice"] = {This, "alice"}

(***************************************************************************)
(* C25: makeBalancePubliclyDecryptable(account) reverts with Unauthorized  *)
(* exactly for callers that are neither the account nor the owner; a       *)
(* reverted call grants nothing; a successful one makes the account's      *)
(* current balance decryptable by anyone and changes no balance, game or   *)
(* treasury.                                                               *)
(***************************************************************************)
C25_MakePublicAuthorized ==
    [][/\ RevertedStep("makeBalancePubliclyDecryptable") =>
             /\ UNCHANGED contractState
             /\ (failed'.err = "Unauthorized")
                   = (failed'.sender # failed'.arg[1] /\ failed'.sender # owner)
       /\ SucceededStep("makeBalancePubliclyDecryptable") =>
             /\ last'.sender = last'.arg[1] \/ last'.sender = owner
             /\ \A a \in Callers : CanDecrypt(acl'.balance[last'.arg[1]], a)
             /\ UNCHANGED <<owner, gameCounter, playerBalance, games, playerGames,
                             treasury, log>>]_vars

C25_Witness ==
    /\ last.op = "makeBalancePubliclyDecryptable"
    /\ last.sender = "alice"
    /\ last.arg[1] = "alice"
    /\ playerBalance["alice"] = Lit32(1000)
    /\ CanDecrypt(acl.balance["alice"], "bob")

\* 2^32
TwoTo32 == BigAdd(U32ToBig(MaxUint32), Big(1))

(***************************************************************************)
(* C26: startGame with a valid dice count and valid proofs never reverts,  *)
(* whatever the stake S and the player's balance B are, and leaves the     *)
(* balance at (B - S) mod 2^32: B - S when S <= B, 2^32 - (S - B) when     *)
(* S > B.  (Every startGame of SpecOutcome has a valid count and proofs.)  *)
(***************************************************************************)
C26_StakeNotChecked ==
    [][/\ ~RevertedStep("startGame")
       /\ \A g \in GameIds :
             StartedStep(g) =>
                LET player == games'[g].player
                    B == BalanceOf(player)
                    S == U32ToBig(games'[g].stakeAmount)
                IN  IF BigLeq(S, B) THEN BalanceAfter(player) = BigSub(B, S)
                    ELSE BigAdd(BalanceAfter(player), BigSub(S, B)) = TwoTo32]_vars

C26_Witness ==
    /\ last.op = "startGame"
    /\ gameCounter = 1
    /\ atStart[0].before = Lit32(1000)
    /\ games[0].stakeAmount = U32(32768, 0)
    /\ playerBalance["alice"] = U32(32768, 1000)

(***************************************************************************)
(* C27: every account's game-id list only grows at its end, is strictly    *)
(* increasing, and holds exactly the ids below gameCounter whose stored    *)
(* player is the account; getPlayerGameCount is its length, and the        *)
(* lengths of all lists add up to gameCounter.                             *)
(***************************************************************************)
RECURSIVE GameCountOver(_)
GameCountOver(S) ==
    IF S = {} THEN 0
    ELSE LET a == CHOOSE x \in S : TRUE
         IN  getPlayerGameCount(a) + GameCountOver(S \ {a})

PlayerGamesOk ==
    /\ \A a \in Accounts :
          LET ids == getPlayerGames(a)
          IN  /\ \A i \in 1 .. Len(ids) : \A j \in 1 .. Len(ids) : i < j => ids[i] < ids[j]
              /\ {ids[i] : i \in 1 .. Len(ids)}
                    = {g \in GameIds : g < gameCounter /\ games[g].player = a}
              /\ getPlayerGameCount(a) = Len(ids)
    /\ GameCountOver(Accounts) = gameCounter

C27_PlayerGameLists ==
    [][/\ PlayerGamesOk'
       /\ \A a \in Accounts :
             /\ Len(playerGames'[a]) >= Len(playerGames[a])
             /\ SubSeq(playerGames'[a], 1, Len(playerGames[a])) = playerGames[a]]_vars

C27_Witness ==
    /\ getPlayerGames("alice") = <<0, 2>>
    /\ getPlayerGames("bob") = <<1>>
    /\ getPlayerGameCount("alice") = 2
    /\ gameCounter = 3

(***************************************************************************)
(* C28: a call that fails, for whichever reason, leaves balances, games,   *)
(* the game counter, the game lists, the treasury, the log and the grants  *)
(* as they were; a sell or a withdrawal whose native transfer is refused   *)
(* is such a failed call, never a successful one.                          *)
(***************************************************************************)
C28_FailedCallChangesNothing ==
    [][/\ (Idle /\ failed'.op # "none") => UNCHANGED contractState
       /\ SoldStep => last'.arg[3] /\ last'.arg[4]
       /\ SucceededStep("withdrawETH") => last'.arg[1]]_vars

C28_Witness ==
    /\ failed.op = "swapROLLForETH"
    /\ failed.err = "TransferFailed"
    /\ failed.arg[1] = Lit32(1000)
    /\ playerBalance["alice"] = Lit32(1000)
    /\ treasury = OneEther


(***************************************************************************)
(* C29: a step that changes an account's balance is a successful           *)
(* mintTokens, swapETHForROLL, swapROLLForETH, startGame or resolveGame    *)
(* called by that account; so a call by X changes no balance but X's, and  *)
(* makeBalancePubliclyDecryptable, the treasury operations and plain       *)
(* transfers change none.                                                  *)
(***************************************************************************)
C29_AccountIsolation ==
    [][\A a \in Accounts :
          playerBalance'[a] # playerBalance[a] =>
             /\ last'.sender = a
             /\ \E op \in BalanceOps : SucceededStep(op)]_vars

C29_Witness ==
    /\ playerBalance["alice"] = Lit32(1000)
    /\ playerBalance["bob"] = Sub32(Zero32, Lit32(100))
    /\ playerBalance[Deployer] = NullHandle
    /\ last.op = "mintTokens"
    /\ last.sender = "alice"

(***************************************************************************)
(* C30: the log only grows at its end; for every game id g it holds one    *)
(* GameStarted record once g is created and none before, at most one       *)
(* GameResolved record (one exactly when the game is resolved), the        *)
(* GameResolved record after the GameStarted record, and both records      *)
(* carry the game's stored player.                                         *)
(***************************************************************************)
RecordsOf(type, g) == {i \in 1 .. Len(log) : log[i].type = type /\ log[i].gameId = g}

LogOk ==
    \A g \in GameIds :
       LET started == RecordsOf("GameStarted", g)
           resolved == RecordsOf("GameResolved", g)
       IN  /\ Cardinality(started) = IF g < gameCounter THEN 1 ELSE 0
           /\ Cardinality(resolved) = IF games[g].isResolved THEN 1 ELSE 0
           /\ \A i \in started : \A j \in resolved : i < j
           /\ resolved # {} => started # {}
           /\ \A i \in started \cup resolved : log[i].player = games[g].player

C30_GameRecords ==
    [][/\ Len(log') >= Len(log)
       /\ SubSeq(log', 1, Len(log)) = log
       /\ LogOk'
       /\ \A g \in GameIds :
             /\ StartedStep(g) => g = gameCounter /\ gameCounter' = g + 1
             /\ ResolvedStep(g) => g < gameCounter /\ ~games[g].isResolved]_vars

C30_Witness ==
    /\ gameCounter = 2
    /\ games[0].isResolved
    /\ ~games[1].isResolved
    /\ Cardinality(RecordsOf("GameStarted", 0)) = 1
    /\ Cardinality(RecordsOf("GameStarted", 1)) = 1
    /\ Cardinality(RecordsOf("GameResolved", 0)) = 1
    /\ log[Len(log)].type = "GameResolved"


(***************************************************************************)
(* C31: once a game is created, no later step (a resolveGame of it or of   *)
(* another game, a later startGame, a mint, a swap, a treasury operation,  *)
(* a new block) changes its player, diceCount, prediction, stake or        *)
(* creation timestamp.                                                     *)
(***************************************************************************)
C31_GameFieldsFrozen ==
    [][\A g \in GameIds :
          g < gameCounter =>
             /\ games'[g].player = games[g].player
             /\ games'[g].diceCount = games[g].diceCount
             /\ games'[g].prediction = games[g].prediction
             /\ games'[g].stakeAmount = games[g].stakeAmount
             /\ games'[g].timestamp = games[g].timestamp]_vars

C31_Witness ==
    /\ gameCounter = 2
    /\ games[0].isResolved
    /\ games[0].player = "alice"
    /\ games[0].diceCount = 1
    /\ games[0].stakeAmount = Lit32(100)
    /\ games[0].timestamp = 1
    /\ games[1].player = "bob"
    /\ blockTimestamp = 2

\* the native amount the contract receives in this step
ReceivedInStep ==
    IF \E op \in {"swapETHForROLL", "addTreasuryETH", "receive"} : SucceededStep(op)
    THEN last'.arg[1] ELSE Big(0)

\* the native amount the contract pays out in this step
PaidInStep ==
    IF \E op \in {"swapROLLForETH", "withdrawETH"} : SucceededStep(op)
    THEN last'.paid ELSE Big(0)

(***************************************************************************)
(* C32: getContractETHBalance is 0 after deployment, and every step leaves *)
(* it at its previous value plus the amount received in the step (a buy    *)
(* payment, an owner deposit, a plain transfer) minus the amount paid out  *)
(* (a sell payout, an owner withdrawal), which never exceeds what the      *)
(* contract holds; so it is always the sum received minus the sum paid.    *)
(***************************************************************************)
C32_TreasuryConservation ==
    /\ getContractETHBalance = Big(0)
    /\ [][/\ BigLeq(PaidInStep, BigAdd(getContractETHBalance, ReceivedInStep))
          /\ BigAdd(getContractETHBalance', PaidInStep)
                = BigAdd(getContractETHBalance, ReceivedInStep)]_vars

C32_Witness ==
    /\ getContractETHBalance = Big(0)
    /\ last.op = "withdrawETH"
    /\ last.paid = OneEther
    /\ NoEvents({"TokensSwapped"}) = 2
    /\ steps = 4


\* the grants every stored ciphertext carries, public decryption of balances aside
GrantsOk ==
    /\ \A g \in GameIds :
          LET player == games[g].player
              dice == acl.diceValues[g]
          IN  IF g < gameCounter
              THEN /\ acl.prediction[g] = {This, player}
                   /\ acl.stakeAmount[g] = {This, player}
                   /\ Len(dice) = games[g].diceCount
                   /\ IF games[g].isResolved
                      THEN /\ \A i \in 1 .. Len(dice) : dice[i] = {This, player}
                           /\ acl.won[g] = {This, player}
                      ELSE /\ \A i \in 1 .. Len(dice) : dice[i] = {}
                           /\ acl.won[g] = {}
              ELSE /\ acl.prediction[g] = {}
                   /\ acl.stakeAmount[g] = {}
                   /\ dice = <<>>
                   /\ acl.won[g] = {}
    /\ \A a \in Accounts :
          acl.balance[a] \ {Public}
             = IF playerBalance[a] = NullHandle THEN {} ELSE {This, a}

ActiveGames == {g \in GameIds : Active(g)}

Room(k) == steps + Cardinality(ActiveGames) + k <= MaxSteps

\* resolveGame(g) called by the stored player of the active game g
ResolveOwn(g) == Active(g) /\ resolveGame(games[g].player, g)

InitResolve ==
    InitWith([prediction : {1}, stake : {Lit32(100), U32(32768, 0)}], {0})

NextResolve ==
    \/ Room(1) /\ NewBlock(1)
    \/ Room(1) /\ mintTokens("alice", Big(1000))
    \/ Room(1) /\ swapETHForROLL("bob", OneEther)
    \/ Room(1) /\ withdrawETH(Deployer, TRUE)
    \/ Room(2) /\ \E a \in Players, n \in {1, 3} :
          startGame(a, n, submitted.prediction, TRUE, submitted.stake, TRUE)
    \/ \E g \in GameIds : ResolveOwn(g)

SpecResolve ==
    /\ InitResolve
    /\ [][NextResolve]_vars
    /\ \A g \in GameIds : WF_vars(ResolveOwn(g))

(***************************************************************************)
(* C35: resolveGame(g) called by the stored player of an active game g is  *)
(* never refused, whatever the player's balance, the treasury, the blocks  *)
(* passed and the other games are; with the player's resolveGame taken     *)
(* when it stays possible, every started game is eventually resolved.      *)
(***************************************************************************)
C35_ResolveAlwaysAvailable ==
    /\ [](\A g \in GameIds :
            Active(g) => /\ resolveGameErr(games[g].player, g) = "ok"
                         /\ ENABLED ResolveOwn(g))
    /\ \A g \in GameIds : Active(g) ~> (g < gameCounter /\ games[g].isResolved)

C35_Witness ==
    /\ gameCounter = 1
    /\ games[0].isResolved
    /\ games[0].timestamp < blockTimestamp
    /\ treasury = OneEther
    /\ last.op = "resolveGame"
    /\ last.sender = "alice"
    /\ Less32(atStart[0].before, games[0].stakeAmount)


(***************************************************************************)
(* SpecRoundTrip: one account buys with the payment of the run and sells   *)
(* back the tokens the buy credited, from a balance of 0, 1000 or          *)
(* 2^32 - 1, while the owner funds and empties the treasury.               *)
(***************************************************************************)
RoundTripValues ==
    {Big(0), Big(1), MilliEther(Big(1)), BigAdd(MilliEther(Big(2)), Big(999)), OneEther,
     MilliEther(U32ToBig(MaxUint32)), MilliEther(BigAdd(U32ToBig(MaxUint32), Big(1)))}

\* the tokens the last successful call, a buy, credited to its caller
Credited == Sub32(Val32(playerBalance[last.sender]), last.before)

\* the amount of the next sell: the credited tokens right after a buy
SellBack == IF last.op = "swapETHForROLL" THEN Credited ELSE Lit32(1000)

InitRoundTrip == InitWith([value : RoundTripValues], {0})

NextRoundTrip ==
    \/ \E amount \in {Big(1000), U32ToBig(MaxUint32)} : mintTokens("alice", amount)
    \/ swapETHForROLL("alice", submitted.value)
    \/ \E accepts \in BOOLEAN : swapROLLForETH("alice", SellBack, SellBack, TRUE, accepts)
    \/ addTreasuryETH(Deployer, OneEther)
    \/ withdrawETH(Deployer, TRUE)
    \/ DropReceipt

SpecRoundTrip == InitRoundTrip /\ [][NextRoundTrip]_vars

\* n is a multiple of 1 ether / ROLL_TOKEN_RATE = 1000^(EtherDigits - 1)
IsWholeMilliEther(n) == \A i \in 1 .. EtherDigits - 1 : Digit(n, i) = 0

\* the call of this step is the sell of the tokens the preceding buy credited
MatchingSell(arg) ==
    /\ last.op = "swapETHForROLL"
    /\ arg[1] = Credited
    /\ arg[2] = Credited

(***************************************************************************)
(* C36: a sell of exactly the tokens the preceding buy of n credited pays  *)
(* at most n, and n itself when n is a multiple of 1 ether / 1000; it      *)
(* leaves the account's balance where it was before the buy and the        *)
(* treasury no lower than before the buy; it is refused only when the      *)
(* buy credited 0 tokens or the account refuses the transfer, never for a  *)
(* short treasury, and then balance and treasury are no lower either.      *)
(***************************************************************************)
C36_SwapRoundTrip ==
    [][LET n == last.arg[1]
       IN  /\ (SoldStep /\ last'.sender = last.sender /\ MatchingSell(last'.arg)) =>
                /\ BigLeq(last'.paid, n)
                /\ IsWholeMilliEther(n) => last'.paid = n
                /\ Val32(playerBalance'[last.sender]) = last.before
                /\ BigLeq(n, treasury)
                /\ BigLeq(BigSub(treasury, n), treasury')
           /\ (RevertedStep("swapROLLForETH") /\ failed'.sender = last.sender
                  /\ MatchingSell(failed'.arg)) =>
                /\ \/ failed'.err = "Amount must be greater than 0" /\ Credited = Zero32
                   \/ failed'.err = "TransferFailed" /\ ~failed'.arg[4]
                /\ Credited = Zero32 => Val32(playerBalance'[last.sender]) = last.before
                /\ treasury' = treasury]_vars

C36_Witness ==
    /\ last.op = "swapROLLForETH"
    /\ last.arg[1] = Lit32(2)
    /\ last.paid = MilliEther(Big(2))
    /\ last.before = Lit32(1)
    /\ playerBalance["alice"] = MaxUint32
    /\ treasury = Big(999)
    /\ NoEvents({"TokensSwapped"}) = 2


(***************************************************************************)
(* C37: the owner is the deploying account after the constructor and in    *)
(* every reachable state; no step changes it, and the callers              *)
(* addTreasuryETH and withdrawETH accept are the deploying account alone,  *)
(* always.                                                                 *)
(***************************************************************************)
C37_OwnerFixed ==
    /\ owner = Deployer
    /\ [][/\ owner' = owner
          /\ {a \in Accounts : addTreasuryETHErr(a, OneEther)' = "ok"} = {Deployer}
          /\ {a \in Accounts : withdrawETHErr(a, TRUE)' = "ok"} = {Deployer}]_vars

C37_Witness ==
    /\ owner = Deployer
    /\ last.op = "withdrawETH"
    /\ last.sender = Deployer
    /\ failed.op = "addTreasuryETH"
    /\ failed.sender = "bob"
    /\ failed.err = "OnlyOwner"
    /\ steps = 4


(***************************************************************************)
(* useFHEPublicDecrypt: the hook's operations.  The contract is left as    *)
(* deployed.                                                               *)
(***************************************************************************)
MaxRenders == 2

contractSide == <<contractState, chain, last, failed, submitted, steps, atStart>>

\* canDecrypt of the last render
canDecrypt ==
    /\ params.instance # UndefinedInstance
    /\ params.requests.given
    /\ Len(params.requests.items) > 0
    /\ ~isDecrypting

\* thisRequests.map(r => r.handle)
HandlesOf(requests) == {requests.items[i].handle : i \in 1 .. Len(requests.items)}

\* decrypt() never finding a run in flight
decryptBusyNever == FALSE

\* if (isDecryptingRef.current) return;
decryptBusy == isDecryptingRef

\* if (!instance || !requests || requests.length === 0) return;
decryptIdle(c) ==
    c.instance = UndefinedInstance \/ ~c.requests.given \/ Len(c.requests.items) = 0

\* isStale of a run: both operands of each comparison belong to the render whose
\* decrypt started the run, apart from lastReqKeyRef.current
isStale(run) == run.thisChainId # run.chainId \/ run.requestsKey # lastReqKeyRef

\* every value publicDecrypt returned, asked for or not
ResOfAll(requests, clearValues) == clearValues.values

\* res: the clear values of the handles asked for, when clearValues is there
ResOf(requests, clearValues) ==
    IF ~clearValues.given THEN EmptyRecord
    ELSE [h \in HandlesOf(requests) \cap DOMAIN clearValues.values |->
             clearValues.values[h]]

\* `${code}: ${err?.message || "Public decryption failed"}`
ErrorText(e) ==
    <<IF e.hasName THEN e.name ELSE "PUBLIC_DECRYPT_ERROR",
      IF e.message # "" THEN e.message ELSE "Public decryption failed">>

\* the component renders again with new params; the caller may keep the
\* decrypt callback of the render before
Render(p, keep) ==
    /\ renders < MaxRenders
    /\ p # params
    /\ renders' = renders + 1
    /\ params' = p
    /\ held' = IF keep THEN params ELSE held
    /\ UNCHANGED <<isDecrypting, message, results, error, isDecryptingRef, lastReqKeyRef,
                   inflight, lastDecrypt, settled, contractSide>>

\* decrypt() of the render with params c, up to the await of publicDecrypt
decrypt(c) ==
    /\ c \in {params, held}
    /\ IF decryptBusy \/ decryptIdle(c)
       THEN /\ lastDecrypt' = [closure |-> c, started |-> FALSE, busy |-> inflight # <<>>]
            /\ UNCHANGED <<isDecrypting, message, error, isDecryptingRef, lastReqKeyRef,
                           inflight>>
       ELSE /\ lastDecrypt' = [closure |-> c, started |-> TRUE, busy |-> inflight # <<>>]
            /\ lastReqKeyRef' = requestsKey(c.requests)
            /\ isDecryptingRef' = TRUE
            /\ isDecrypting' = TRUE
            /\ message' = "Call FHEVM publicDecrypt..."
            /\ error' = NullError
            /\ inflight' = Append(inflight,
                   [thisChainId |-> c.chainId, thisRequests |-> c.requests,
                    chainId |-> c.chainId, requestsKey |-> requestsKey(c.requests)])
    /\ UNCHANGED <<params, held, results, settled, renders, contractSide>>

\* the finally block of a run
Finally(i) ==
    /\ isDecryptingRef' = FALSE
    /\ isDecrypting' = FALSE
    /\ lastReqKeyRef' = inflight[i].requestsKey
    /\ inflight' = SubSeq(inflight, 1, i - 1) \o SubSeq(inflight, i + 1, Len(inflight))

\* publicDecrypt of run i resolves with clearValues: the rest of the run
Resolve(i, clearValues) ==
    /\ i \in 1 .. Len(inflight)
    /\ IF isStale(inflight[i])
       THEN /\ message' = "Ignore FHEVM public decryption"
            /\ UNCHANGED results
       ELSE /\ results' = ResOf(inflight[i].thisRequests, clearValues)
            /\ message' = "FHEVM public decryption completed"
    /\ Finally(i)
    /\ settled' = [kind |-> "resolved", run |-> inflight[i], clearValues |-> clearValues,
                   e |-> Thrown(FALSE, "", "")]
    /\ UNCHANGED <<params, held, error, lastDecrypt, renders, contractSide>>

\* publicDecrypt of run i rejects with e: the rest of the run
Reject(i, e) ==
    /\ i \in 1 .. Len(inflight)
    /\ IF isStale(inflight[i])
       THEN /\ message' = "Ignore FHEVM public decryption"
            /\ UNCHANGED error
       ELSE /\ error' = ErrorText(e)
            /\ UNCHANGED message
    /\ Finally(i)
    /\ settled' = [kind |-> "rejected", run |-> inflight[i], clearValues |-> NoClearValues,
                   e |-> e]
    /\ UNCHANGED <<params, held, results, lastDecrypt, renders, contractSide>>

\* the setters the hook hands to its caller
setMessage(m) ==
    /\ message' = m
    /\ UNCHANGED <<params, held, isDecrypting, results, error, isDecryptingRef,
                   lastReqKeyRef, inflight, lastDecrypt, settled, renders, contractSide>>

setError(err) ==
    /\ error' = err
    /\ UNCHANGED <<params, held, isDecrypting, message, results, isDecryptingRef,
                   lastReqKeyRef, inflight, lastDecrypt, settled, renders, contractSide>>

(***************************************************************************)
(* SpecHook: one hook instance, first rendered without instance and       *)
(* requests, then with changing chain ids and requests; its decrypt is     *)
(* called from the last render or an earlier one, and publicDecrypt        *)
(* resolves or rejects at any later time.                                  *)
(***************************************************************************)
ParamsSet ==
    [instance : {"fhevm"},
     chainId : {1, 2},
     requests : {UndefinedRequests, Requests(<<Request("0xh1")>>),
                 Requests(<<Request("0xh1"), Request("0xh2")>>),
                 Requests(<<Request("0xh2"), Request("0xh1")>>)}]

ClearValuesSet ==
    {NoClearValues,
     ClearValues([h \in {"0xh1"} |-> 7]),
     ClearValues([h \in {"0xh2", "0xh3"} |-> 9])}

ThrownSet == {Thrown(TRUE, "RelayerError", "timeout"), Thrown(FALSE, "", "")}

Settle ==
    \E i \in 1 .. Len(inflight) :
       \/ \E clearValues \in ClearValuesSet : Resolve(i, clearValues)
       \/ \E e \in ThrownSet : Reject(i, e)

InitHook == InitWith({[prediction |-> 0, stake |-> Lit32(100)]}, {0})

NextHook ==
    \/ \E p \in ParamsSet, keep \in BOOLEAN : Render(p, keep)
    \/ \E c \in {params, held} : decrypt(c)
    \/ Settle
    \/ setMessage("")
    \/ setError(NullError)

SpecHook == InitHook /\ [][NextHook]_vars

\* publicDecrypt settles every call
SpecHookLive == SpecHook /\ WF_vars(Settle)


\* this step settles a run: its finally block has run
SettledStep == Len(inflight') < Len(inflight)

(***************************************************************************)
(* C38: a hook instance has at most one publicDecrypt call in flight, and  *)
(* the ref guard is set exactly while one is; a decrypt() invoked while a  *)
(* run has not finished, from the last render or an earlier one, starts no *)
(* call and leaves message, error, results and the guards as they were.    *)
(***************************************************************************)
C38_OneDecryptInFlight ==
    /\ [](Len(inflight) <= 1 /\ (isDecryptingRef <=> inflight # <<>>))
    /\ [][(inflight # <<>> /\ lastDecrypt' # lastDecrypt) =>
             /\ lastDecrypt'.busy
             /\ ~lastDecrypt'.started
             /\ UNCHANGED <<inflight, message, error, results, isDecrypting,
                            isDecryptingRef, lastReqKeyRef>>]_vars

C38_Witness ==
    /\ Len(inflight) = 1
    /\ lastDecrypt.busy
    /\ ~lastDecrypt.started
    /\ ~decryptIdle(lastDecrypt.closure)
    /\ lastDecrypt.closure = params
    /\ params.chainId # inflight[1].thisChainId
    /\ message = "Call FHEVM publicDecrypt..."

\* chainId or the set of requests of the last render differs from the run's
ChangedSince(run) ==
    params.chainId # run.thisChainId \/ requestsKey(params.requests) # run.requestsKey

(***************************************************************************)
(* C39: when chainId or the set of requests has changed since a run        *)
(* started, the outcome of its publicDecrypt call updates neither results  *)
(* nor error.                                                              *)
(***************************************************************************)
C39_StaleOutcomeIgnored ==
    [][\A i \in 1 .. Len(inflight) :
          (SettledStep /\ ChangedSince(inflight[i])) =>
             /\ results' = results
             /\ error' = error]_vars

\* no run is ever judged stale
NeverJudgedStale == \A i \in 1 .. Len(inflight) : ~isStale(inflight[i])

(***************************************************************************)
(* C40: when the publicDecrypt call of a run settles, isDecrypting and     *)
(* isDecryptingRef are false again and decrypt() is no longer held back;   *)
(* a rejection keeps the previous results and sets error, a success        *)
(* replaces results by the clear values of the handles the run asked for   *)
(* and of no other handle; publicDecrypt settling every call, every run    *)
(* in flight leads to a state with none and both guards false.             *)
(***************************************************************************)
C40_GuardCleared ==
    /\ [][SettledStep =>
             /\ ~isDecrypting' /\ ~isDecryptingRef' /\ ~decryptBusy'
             /\ inflight' = <<>>
             /\ settled'.kind = "rejected" =>
                   /\ results' = results
                   /\ error' # NullError
                   /\ error'[1] = (IF settled'.e.hasName THEN settled'.e.name
                                   ELSE "PUBLIC_DECRYPT_ERROR")
             /\ settled'.kind = "resolved" =>
                   LET asked == HandlesOf(settled'.run.thisRequests)
                       given == settled'.clearValues.values
                   IN  /\ DOMAIN results' = asked \cap DOMAIN given
                       /\ \A h \in DOMAIN results' : results'[h] = given[h]
                       /\ error' = error]_vars
    /\ (inflight # <<>>) ~> (inflight = <<>> /\ ~isDecrypting /\ ~isDecryptingRef)

C40_Witness ==
    /\ settled.kind = "resolved"
    /\ settled.clearValues = ClearValues([h \in {"0xh2", "0xh3"} |-> 9])
    /\ HandlesOf(settled.run.thisRequests) = {"0xh1", "0xh2"}
    /\ results = [h \in {"0xh2"} |-> 9]
    /\ ~isDecrypting
    /\ ~isDecryptingRef
    /\ lastDecrypt.started
    /\ inflight = <<>>

=============================================================================
